---- MODULE Spec2Model ----
(***************************************************************************)
(* A model of src/src/MongoDBIngestor.ts: the time-series ingestor that    *)
(* fragments an append-only stream into buckets ("windows") of bounded     *)
(* size, indexed from a root bucket through >= / < relations.              *)
(*                                                                         *)
(* The MongoDB database is three collections (meta, index, data), each a   *)
(* sequence of documents in insertion (natural) order.  All documents      *)
(* belong to the one stream of the ingestor (sdsStreamIdentifier), so the  *)
(* streamId field and filter are left implicit.  The _metadata field of    *)
(* the ingestor is written by instantiate and never read: it is left out.  *)
(***************************************************************************)
EXTENDS Integers, Sequences, FiniteSets, TLC

(***************************************************************************)
(* Bounds of the model.                                                    *)
(***************************************************************************)
\* The page size the ingestor is configured with.  The source configures 50
\* (instantiate, line 176); the claims are stated for any page size P >= 1
\* and the model runs a small one so that buckets fill up.
PageSize == 1
\* Member timestamps range over DateT0 - 1 .. DateT0 + MaxOffset (seconds).
MaxOffset == 2
\* The number of members a producer hands over in a run.
MaxAppends == 4
\* The longest sequence of members handed to publish.
MaxBatch == 2

(***************************************************************************)
(* Instants, Date objects and their string forms.                          *)
(* An instant is a number of seconds since the epoch (the source works in  *)
(* milliseconds; every instant of the model is a whole second).            *)
(***************************************************************************)
\* new Date("2022-08-07T08:08:21Z"), in seconds since the epoch.
DateT0 == 1659859701

Instants == (DateT0 - 1)..(DateT0 + MaxOffset)

\* An absent (undefined) field or value.
Undefined == << >>

\* An optional value that is present.
Some(v) == <<v>>

\* A JavaScript Date: a time value, or Invalid Date.
Date(t) == [valid |-> TRUE, time |-> t]

InvalidDate == [valid |-> FALSE, time |-> 0]

\* The civil date <<year, month, day>> of a day number counted from the
\* epoch (the proleptic Gregorian calendar, in eras of 400 years that start
\* on 1 March), computed in stages: era and day of era, year of era, day of
\* year, month counted from March.
CivilFromMp(era, yoe, doy, mp) ==
    <<yoe + era * 400 + (IF mp < 10 THEN 0 ELSE 1),
      IF mp < 10 THEN mp + 3 ELSE mp - 9,
      doy - (153 * mp + 2) \div 5 + 1>>

CivilFromDoy(era, yoe, doy) == CivilFromMp(era, yoe, doy, (5 * doy + 2) \div 153)

CivilFromYoe(era, doe, yoe) ==
    CivilFromDoy(era, yoe, doe - (365 * yoe + yoe \div 4 - yoe \div 100))

CivilFromDoe(era, doe) ==
    CivilFromYoe(era, doe,
        (doe - doe \div 1460 + doe \div 36524 - doe \div 146096) \div 365)

CivilFromDays(z) ==
    CivilFromDoe((z + 719468) \div 146097, (z + 719468) % 146097)

\* The day number, counted from the epoch, of a civil date.
DaysFromYoe(era, yoe, doy) ==
    era * 146097 + yoe * 365 + yoe \div 4 - yoe \div 100 + doy - 719468

DaysFromYear(yy, m, d) ==
    DaysFromYoe(yy \div 400, yy % 400,
                (153 * (IF m > 2 THEN m - 3 ELSE m + 9) + 2) \div 5 + d - 1)

DaysFromCivil(y, m, d) == DaysFromYear(IF m <= 2 THEN y - 1 ELSE y, m, d)

\* Date.prototype.toISOString of a valid Date: "YYYY-MM-DDTHH:mm:ss.000Z",
\* kept as its six zero-padded fields <<YYYY, MM, DD, HH, mm, ss>>.
toISOString(date) ==
    CivilFromDays(date.time \div 86400)
        \o <<(date.time % 86400) \div 3600, (date.time % 3600) \div 60, date.time % 60>>

\* new Date(v) of a stored ISO string, or of undefined.
NewDate(v) ==
    IF v = Undefined
    THEN InvalidDate
    ELSE Date(DaysFromCivil(v[1], v[2], v[3]) * 86400 + v[4] * 3600 + v[5] * 60 + v[6])

\* date.valueOf() + '': the milliseconds since the epoch as a decimal string.
valueOfString(date) ==
    IF date.valid THEN ToString(date.time) \o "000" ELSE "NaN"

\* The order of two ISO strings as strings: every field has a fixed width,
\* so the strings compare as their fields do, from the left.
RECURSIVE IsoLessFrom(_, _, _)
IsoLessFrom(a, b, i) ==
    IF i > Len(a) THEN FALSE
    ELSE IF a[i] # b[i] THEN a[i] < b[i]
    ELSE IsoLessFrom(a, b, i + 1)

IsoLess(a, b) == IsoLessFrom(a, b, 1)

\* MongoDB's order of the values of a field: a missing field comes first.
SortKeyLess(a, b) ==
    IF a = Undefined THEN b # Undefined
    ELSE IF b = Undefined THEN FALSE
    ELSE IsoLess(a, b)

(***************************************************************************)
(* State.                                                                  *)
(***************************************************************************)
VARIABLES
    mongoConnection,  \* whether the ingestor holds a connection
    _pageSize,        \* Undefined or Some(n)
    _timestampPath,   \* Undefined or Some(path)
    meta,             \* the meta collection
    index,            \* the index collection: the buckets
    data,             \* the data collection: the members
    nAppends,         \* the members handed over so far
    pub,              \* the publish call in progress, or the last one
    last,             \* the last call and its outcome
    calls             \* per caller, the call it is in, await by await

vars == <<mongoConnection, _pageSize, _timestampPath,
          meta, index, data, nAppends, pub, last, calls>>

root == ""

TimestampPathIRI == "http://www.w3.org/ns/sosa/resultTime"

GreaterThanOrEqualTo == "GreaterThanOrEqualToRelation"

LessThan == "LessThanRelation"

(***************************************************************************)
(* MongoDBIngestor: the store operations.  Each takes the collection it    *)
(* writes and yields the collection after the write.                       *)
(***************************************************************************)
\* The position of the first document with the given id (findOne and
\* updateOne act on the first match in natural order); 0 when there is none.
FirstMatch(idx, bucketIdentifier) ==
    IF \E i \in 1..Len(idx) : idx[i].id = bucketIdentifier
    THEN CHOOSE i \in 1..Len(idx) :
            /\ idx[i].id = bucketIdentifier
            /\ \A j \in 1..(i - 1) : idx[j].id # bucketIdentifier
    ELSE 0

\* Whether the stream's metadata document is in the meta collection.
streamExists == Len(meta) > 0

\* The meta collection after initialise inserted the stream's metadata.
insertMeta(sdsMetadata) ==
    Append(meta, [id |-> "stream", value |-> sdsMetadata])

\* storeMembers: one data document per member, its quads as the payload.
storeMembers(dat, members) ==
    dat \o [i \in 1..Len(members) |->
                [id |-> members[i].id, data |-> members[i].quads]]

\* AbstractIngestor.storeMember: stores the one member.
storeMember(dat, member) == storeMembers(dat, <<member>>)

\* createBucket: inserts a bucket without members, relations, start or end.
createBucket(idx, bucketIdentifier) ==
    Append(idx, [id        |-> bucketIdentifier,
                 leaf      |-> TRUE,
                 relations |-> << >>,
                 count     |-> 0,
                 members   |-> << >>,
                 start     |-> Undefined,
                 end       |-> Undefined])

\* addMemberstoBucket with a filter that lost the bucket identifier: the
\* first bucket of the stream takes the members.
addMemberstoFirstBucket(idx, bucketIdentifier, memberIDs) ==
    IF Len(idx) = 0 THEN idx
    ELSE [idx EXCEPT ![1].members = @ \o memberIDs]

\* addMemberstoBucket: pushes the identifiers onto the first matching bucket.
addMemberstoBucket(idx, bucketIdentifier, memberIDs) ==
    LET i == FirstMatch(idx, bucketIdentifier)
    IN  IF i = 0 THEN idx
        ELSE [idx EXCEPT ![i].members = @ \o memberIDs]

\* addRelationsToBucket: pushes the relations onto the first matching bucket.
addRelationsToBucket(idx, bucketIdentifier, relations) ==
    LET i == FirstMatch(idx, bucketIdentifier)
    IN  IF i = 0 THEN idx
        ELSE [idx EXCEPT ![i].relations = @ \o relations]

\* bucketExists looking the bucket up in a collection that does not hold it.
bucketExistsNowhere(idx, bucketIdentifier) == FALSE

bucketExists(idx, bucketIdentifier) == FirstMatch(idx, bucketIdentifier) # 0

(***************************************************************************)
(* TSMongoDBIngestor: configuration, windows.                              *)
(***************************************************************************)
\* The pageSize getter is _pageSize ?? Infinity; Exceeds(n) is n > pageSize.
Exceeds(n) == _pageSize # Undefined /\ n > _pageSize[1]

\* Whether the timestampPath getter throws.
timestampPathThrows == _timestampPath = Undefined

timestampPath == _timestampPath[1]

\* The sort by start, ascending.
OldestPositions(idx) ==
    {i \in 1..Len(idx) :
        \A j \in 1..Len(idx) : ~SortKeyLess(idx[j].start, idx[i].start)}

\* The positions of the documents that can come first when the index is
\* sorted by start, descending: those whose start no other exceeds.  The
\* order among equal keys is the store's choice.
MostRecentPositions(idx) ==
    {i \in 1..Len(idx) :
        \A j \in 1..Len(idx) : ~SortKeyLess(idx[i].start, idx[j].start)}

\* documentToWindow: the end of the window is read from the start field.
documentToWindow(document) ==
    [identifier        |-> document.id,
     memberIdentifiers |-> document.members,
     start             |-> Some(NewDate(document.start)),
     end               |-> Some(NewDate(document.start))]

\* bucketSize: the member count of the first bucket with the window's id.
bucketSize(idx, window) ==
    Len(idx[FirstMatch(idx, window.identifier)].members)

\* Whether building the $set parameters of a window throws: toISOString of
\* an Invalid Date is a RangeError.
windowParamsThrow(window) ==
    \/ window.start # Undefined /\ ~window.start[1].valid
    \/ window.end # Undefined /\ ~window.end[1].valid

\* updateOne with $set of the window's start and end, where present.
setWindowParams(idx, window) ==
    LET i == FirstMatch(idx, window.identifier)
        s == IF window.start = Undefined THEN Undefined
             ELSE toISOString(window.start[1])
        e == IF window.end = Undefined THEN Undefined
             ELSE toISOString(window.end[1])
    IN  IF i = 0 THEN idx
        ELSE [idx EXCEPT ![i].start = IF s = Undefined THEN @ ELSE s,
                         ![i].end   = IF e = Undefined THEN @ ELSE e]

\* createWindow without its $set: the bucket is made and gets no start.
createWindowWithoutStart(idx, window) == createBucket(idx, window.identifier)

\* createWindow (without a throw): createBucket, then the $set.
createWindow(idx, window) ==
    setWindowParams(createBucket(idx, window.identifier), window)

\* updateWindow with a filter that matches no bucket.
updateWindowNowhere(idx, window) == idx

\* updateWindow (without a throw): the $set alone.
updateWindow(idx, window) == setWindowParams(idx, window)

\* The relation addWindowToRoot pushes onto the root.
windowRelation(window) ==
    [type   |-> GreaterThanOrEqualTo,
     value  |-> toISOString(window.start[1]),
     path   |-> timestampPath,
     bucket |-> window.identifier]

\* addWindowToRoot pushing the relation onto the window instead of the root.
addWindowToItself(idx, window) ==
    addRelationsToBucket(idx, window.identifier, <<windowRelation(window)>>)

\* addWindowToRoot (without a throw).
addWindowToRoot(idx, window) ==
    addRelationsToBucket(idx, root, <<windowRelation(window)>>)

\* The window for an instant, were its start always the first start.
newWindowAtFirstStart(date) ==
    [identifier |-> valueOfString(date), start |-> Some(Date(DateT0)),
     end |-> Undefined]

\* The window instantiate and append make for an instant.
newWindow(date) ==
    [identifier |-> valueOfString(date), start |-> Some(date), end |-> Undefined]

(***************************************************************************)
(* Members.  A member is its identifier and its quads; of the quads the    *)
(* model keeps the one the ingestor reads, the timestamp literal on the    *)
(* timestamp path: Some(instant), or Undefined when the member has none.   *)
(***************************************************************************)
MemberIds == [n \in 1..(MaxAppends + MaxBatch) |-> "m" \o ToString(n)]

\* The identifier of the n-th member of the producer.
MemberId(n) == MemberIds[n]

Quads == {Undefined} \cup {Some(t) : t \in Instants}

\* The members a producer can hand over as its n-th one.
Members(n) == {[id |-> MemberId(n), quads |-> q] : q \in Quads}

NoMember == [id |-> "", quads |-> Undefined]

\* Whether extractDate throws: the timestamp path yields no value.
extractDateThrows(member) == member.quads = Undefined

\* extractDate, were it to answer the instant mirrored at the first start.
extractDateMirrored(member) == Date(DateT0 - (member.quads[1] - DateT0))

\* extractDate: the instant at the timestamp path of the member.
extractDate(member) == Date(member.quads[1])

(***************************************************************************)
(* append, as the changes it makes to the index and data collections when  *)
(* the sort query of getMostRecentWindow answered the document at cur.     *)
(* The outcome is the collections it leaves, the branch it took and "ok"   *)
(* or the error it throws.                                                 *)
(***************************************************************************)
Outcome(idx, dat, branch, result) ==
    [index |-> idx, data |-> dat, branch |-> branch, result |-> result]

\* The < relation of the split, were it to lead to the root.
lessThanRelationToRoot(memberDate, currentWindow) ==
    [type   |-> LessThan,
     value  |-> toISOString(memberDate),
     path   |-> timestampPath,
     bucket |-> root]

\* The < relation of the split, were its value the start of the window it
\* closes instead of the instant of the member.
lessThanRelationAtStart(memberDate, currentWindow) ==
    [type   |-> LessThan,
     value  |-> toISOString(currentWindow.start[1]),
     path   |-> timestampPath,
     bucket |-> currentWindow.identifier]

\* The < relation the split pushes onto the root for the window it closes.
lessThanRelation(memberDate, currentWindow) ==
    [type   |-> LessThan,
     value  |-> toISOString(memberDate),
     path   |-> timestampPath,
     bucket |-> currentWindow.identifier]

\* The split branch, were it to record the member in the window it opens.
appendSplitKeepingMember(idx, dat, member, currentWindow) ==
    IF timestampPathThrows \/ extractDateThrows(member)
    THEN Outcome(idx, dat, "split", "extractDate failed")
    ELSE LET memberDate == extractDate(member)
             window     == newWindow(memberDate)
             linked     == addWindowToRoot(createWindow(idx, window), window)
             closing    == [currentWindow EXCEPT !.end = Some(memberDate)]
         IN  Outcome(addMemberstoBucket(
                         addRelationsToBucket(
                             updateWindow(linked, closing), root,
                             <<lessThanRelation(memberDate, currentWindow)>>),
                         window.identifier, <<member.id>>),
                     storeMember(dat, member), "split", "ok")

\* The split branch of append (lines 274-291).
appendSplit(idx, dat, member, currentWindow) ==
    IF timestampPathThrows
    THEN Outcome(idx, dat, "split", "TimestampPath was not configured")
    ELSE IF extractDateThrows(member)
    THEN Outcome(idx, dat, "split", "extractDate failed")
    ELSE LET memberDate == extractDate(member)
             window     == newWindow(memberDate)
             linked     == addWindowToRoot(createWindow(idx, window), window)
             closing    == [currentWindow EXCEPT !.end = Some(memberDate)]
         IN  IF windowParamsThrow(closing)
             THEN Outcome(linked, dat, "split", "RangeError: Invalid time value")
             ELSE Outcome(addRelationsToBucket(
                              updateWindow(linked, closing), root,
                              <<lessThanRelation(memberDate, currentWindow)>>),
                          dat, "split", "ok")

\* The other branch of append (lines 293-294).
appendStore(idx, dat, member, currentWindow) ==
    Outcome(addMemberstoBucket(idx, currentWindow.identifier, <<member.id>>),
            storeMember(dat, member), "store", "ok")

\* The capacity check off by one: size > pageSize.
isFullOffByOne(size) == Exceeds(size)

\* The capacity check, were an empty bucket full as well.
isFullWhenEmpty(size) == Exceeds(size + 1) \/ size = 0

\* Whether append takes the split branch for a bucket of the given size.
isFull(size) == Exceeds(size + 1)

\* append, were it to store the member before it looks at the bucket.
appendStoringFirst(idx, dat, member, cur) ==
    LET currentWindow == documentToWindow(idx[cur])
    IN  IF isFull(bucketSize(idx, currentWindow))
        THEN appendSplit(idx, storeMember(dat, member), member, currentWindow)
        ELSE appendStore(idx, dat, member, currentWindow)

append(idx, dat, member, cur) ==
    LET currentWindow == documentToWindow(idx[cur])
    IN  IF isFull(bucketSize(idx, currentWindow))
        THEN appendSplit(idx, dat, member, currentWindow)
        ELSE appendStore(idx, dat, member, currentWindow)

\* append when it fails before it reads a bucket: without a connection, or
\* with an index collection that holds no bucket.
appendEarlyError(idx) ==
    IF ~mongoConnection THEN "Not connected"
    ELSE IF Len(idx) = 0 THEN "No buckets present"
    ELSE "none"

(***************************************************************************)
(* The calls of a single producer.                                         *)
(***************************************************************************)
Idle == pub.state # "running"

Call(op, config, member, cur, branch, result) ==
    [op |-> op, config |-> config, member |-> member, cur |-> cur,
     branch |-> branch, result |-> result]

\* The callers of the ingestor: the producers that share the store.
Producers == {"a", "b"}

\* A caller that is in no call: the outcome of its last call, and the await
\* at which that call threw, if it did.  In a call, the record holds the
\* locals of the call and the index collection as the call found it.
IdleCall ==
    [pc |-> "idle", op |-> "none", member |-> NoMember, window |-> Undefined,
     size |-> 0, made |-> Undefined, before |-> Undefined,
     result |-> "none", at |-> "none", failures |-> 0]

\* No publish call is in progress, and the last call was not publish.
NoPublish ==
    [state |-> "idle", members |-> << >>, next |-> 1, result |-> "none",
     index |-> << >>, data |-> << >>]

Init ==
    /\ mongoConnection = FALSE
    /\ _pageSize = Undefined
    /\ _timestampPath = Undefined
    /\ meta = << >>
    /\ index = << >>
    /\ data = << >>
    /\ nAppends = 0
    /\ pub = NoPublish
    /\ last = Call("new", "", NoMember, "none", "none", "ok")
    /\ calls = [p \in Producers |-> IdleCall]

Configs == {"", "sds"}

\* initialise(sdsMetadata) (lines 83-94): connects, and stores the metadata
\* of a stream that has none.
initialiseThrows(sdsMetadata) == ~streamExists /\ sdsMetadata = ""

Initialise(sdsMetadata) ==
    /\ Idle
    /\ mongoConnection' = TRUE
    /\ meta' = IF streamExists \/ initialiseThrows(sdsMetadata)
               THEN meta ELSE insertMeta(sdsMetadata)
    /\ last' = Call("initialise", sdsMetadata, NoMember, "none", "none",
                    IF initialiseThrows(sdsMetadata)
                    THEN "No way to create SDS metadata" ELSE "ok")
    /\ pub' = NoPublish
    /\ UNCHANGED <<_pageSize, _timestampPath, index, data, nAppends, calls>>

\* The index collection after instantiate made the root and the first window.
firstWindowIndex(idx, path) ==
    LET firstWindow == newWindow(Date(DateT0))
    IN  addRelationsToBucket(
            createWindow(createBucket(idx, root), firstWindow), root,
            <<[type   |-> GreaterThanOrEqualTo,
               value  |-> toISOString(firstWindow.start[1]),
               path   |-> path,
               bucket |-> firstWindow.identifier]>>)

\* instantiate(config) (lines 172-195).
Instantiate(config) ==
    /\ Idle
    /\ mongoConnection' = TRUE
    /\ meta' = IF streamExists \/ initialiseThrows(config)
               THEN meta ELSE insertMeta(config)
    /\ IF initialiseThrows(config)
       THEN /\ UNCHANGED <<_pageSize, _timestampPath, index>>
            /\ last' = Call("instantiate", config, NoMember, "none", "none",
                            "No way to create SDS metadata")
       ELSE /\ _pageSize' = Some(PageSize)
            /\ _timestampPath' = Some(TimestampPathIRI)
            /\ index' = IF bucketExists(index, root) THEN index
                        ELSE firstWindowIndex(index, TimestampPathIRI)
            /\ last' = Call("instantiate", config, NoMember, "none", "none", "ok")
    /\ pub' = NoPublish
    /\ UNCHANGED <<data, nAppends, calls>>

\* append(member) (lines 269-296), the member being the producer's next one.
\* A member whose append failed before any bucket was read is still the
\* producer's next one.
AppendTo(member) ==
    /\ IF appendEarlyError(index) # "none"
       THEN /\ last' = Call("append", "", member, "none", "none",
                            appendEarlyError(index))
            /\ UNCHANGED <<index, data, nAppends>>
       ELSE \E cur \in MostRecentPositions(index) :
                LET out == append(index, data, member, cur)
                IN  /\ nAppends' = nAppends + 1
                    /\ index' = out.index
                    /\ data' = out.data
                    /\ last' = Call("append", "", member, index[cur].id,
                                    out.branch, out.result)
    /\ pub' = NoPublish
    /\ UNCHANGED <<mongoConnection, _pageSize, _timestampPath, meta, calls>>

AppendMember ==
    /\ Idle
    /\ nAppends < MaxAppends
    /\ \E member \in Members(nAppends + 1) : AppendTo(member)

\* The sequences of members a producer can hand to publish: its next ones.
Batches(n) ==
    UNION {{[i \in 1..k |-> [id |-> MemberId(n + i), quads |-> qs[i]]] :
                qs \in [1..k -> Quads]} : k \in 0..MaxBatch}


\* publish(members) (lines 297-302): the call, before its first append.
PublishOf(members) ==
    /\ nAppends + Len(members) <= MaxAppends
    /\ nAppends' = nAppends + Len(members)
    /\ pub' = [state |-> IF Len(members) = 0 THEN "done" ELSE "running",
               members |-> members, next |-> 1, result |-> "none",
               index |-> index, data |-> data]
    /\ last' = Call("publish", "", NoMember, "none", "none", "ok")
    /\ UNCHANGED <<mongoConnection, _pageSize, _timestampPath,
                   meta, index, data, calls>>

Publish ==
    /\ Idle
    /\ nAppends < MaxAppends
    /\ \E members \in Batches(nAppends) : PublishOf(members)

\* The loop of publish going through the members from the last one.
publishNextFromEnd == pub.members[Len(pub.members) + 1 - pub.next]

\* The member the loop of publish appends next.
publishNext == pub.members[pub.next]

\* One turn of the loop of publish: the append of the next member.  An
\* append that throws ends publish with its error.
PublishAppend ==
    /\ pub.state = "running"
    /\ LET member == publishNext
           ends(result) ==
               [pub EXCEPT !.state = IF result # "ok" THEN "failed"
                                     ELSE IF pub.next = Len(pub.members) THEN "done"
                                     ELSE "running",
                           !.next = IF result = "ok" THEN @ + 1 ELSE @,
                           !.result = result]
       IN  IF appendEarlyError(index) # "none"
           THEN /\ last' = Call("append", "", member, "none", "none",
                                appendEarlyError(index))
                /\ pub' = ends(appendEarlyError(index))
                /\ UNCHANGED <<index, data>>
           ELSE \E cur \in MostRecentPositions(index) :
                    LET out == append(index, data, member, cur)
                    IN  /\ index' = out.index
                        /\ data' = out.data
                        /\ pub' = ends(out.result)
                        /\ last' = Call("append", "", member, index[cur].id,
                                        out.branch, out.result)
    /\ UNCHANGED <<mongoConnection, _pageSize, _timestampPath,
                   meta, nAppends, calls>>

Next ==
    \/ \E sdsMetadata \in Configs : Initialise(sdsMetadata)
    \/ \E config \in Configs : Instantiate(config)
    \/ AppendMember
    \/ Publish
    \/ PublishAppend

Spec == Init /\ [][Next]_vars

(***************************************************************************)
(* Properties.                                                             *)
(***************************************************************************)
\* The buckets of the stream, by position in the index collection.
Positions == 1..Len(index)

\* The last call was an append that took the split branch and returned.
SplitDone == last.op = "append" /\ last.branch = "split" /\ last.result = "ok"

\* The last call was an append that took the other branch.
StoreDone == last.op = "append" /\ last.branch = "store"

\* C1: with page size P configured, every bucket, closed or open, holds at
\* most P member identifiers.
C1_Capacity ==
    _pageSize # Undefined =>
        \A i \in Positions : Len(index[i].members) <= _pageSize[1]

\* C1 witness: a closed bucket holds P members and the open one that
\* follows it holds P members too.
C1_Witness ==
    /\ _pageSize = Some(PageSize)
    /\ \E i, j \in Positions :
        /\ index[i].end # Undefined /\ Len(index[i].members) = PageSize
        /\ index[j].end = Undefined /\ index[j].start # Undefined
        /\ Len(index[j].members) = PageSize

(***************************************************************************)
(* The intervals the relations of the root describe.                       *)
(***************************************************************************)
RootRelations ==
    IF bucketExists(index, root)
    THEN index[FirstMatch(index, root)].relations
    ELSE << >>

\* The instants at which the partition is probed: those a member can carry,
\* one more before and one more after them.
ProbeInstants == (DateT0 - 2)..(DateT0 + MaxOffset + 1)

\* Whether an instant satisfies every relation of the root that leads to the
\* bucket, there being at least one.
InIntervalOf(t, bucketIdentifier) ==
    /\ \E k \in 1..Len(RootRelations) : RootRelations[k].bucket = bucketIdentifier
    /\ \A k \in 1..Len(RootRelations) :
        RootRelations[k].bucket = bucketIdentifier =>
            IF RootRelations[k].type = GreaterThanOrEqualTo
            THEN ~IsoLess(toISOString(Date(t)), RootRelations[k].value)
            ELSE IsoLess(toISOString(Date(t)), RootRelations[k].value)

\* The buckets whose interval holds the instant.
BucketsOf(t) ==
    {RootRelations[k].bucket : k \in {j \in 1..Len(RootRelations) :
        InIntervalOf(t, RootRelations[j].bucket)}}

\* The intervals do not overlap and their union is [firstStart, +infinity):
\* an instant from firstStart on lies in the interval of exactly one bucket,
\* an earlier one in none.
Partition ==
    \A t \in ProbeInstants :
        Cardinality(BucketsOf(t)) = IF t >= DateT0 THEN 1 ELSE 0

\* The boundary values of the >= relations of the root, in the order the
\* relations were pushed, are strictly increasing: every split so far was at
\* an instant later than the start of every bucket that existed then.
SplitsInOrder ==
    \A j, k \in 1..Len(RootRelations) :
        (/\ j < k
         /\ RootRelations[j].type = GreaterThanOrEqualTo
         /\ RootRelations[k].type = GreaterThanOrEqualTo)
            => IsoLess(RootRelations[j].value, RootRelations[k].value)

SplitBucket(t) ==
    [id        |-> ToString(t) \o "000",
     leaf      |-> TRUE,
     relations |-> << >>,
     count     |-> 0,
     members   |-> << >>,
     start     |-> toISOString(Date(t)),
     end       |-> Undefined]

\* The two relations a split at instant t of the bucket cur is to push.
SplitRelations(t, cur) ==
    <<[type   |-> GreaterThanOrEqualTo,
       value  |-> toISOString(Date(t)),
       path   |-> TimestampPathIRI,
       bucket |-> ToString(t) \o "000"],
      [type   |-> LessThan,
       value  |-> toISOString(Date(t)),
       path   |-> TimestampPathIRI,
       bucket |-> cur]>>

\* The index after a split at instant t of the bucket at position cur: one
\* more bucket, the end of cur, two more relations on the root, and nothing
\* else.
SplitIndex(idx, t, cur) ==
    [Append(idx, SplitBucket(t)) EXCEPT
        ![cur].end = toISOString(Date(t)),
        ![FirstMatch(idx, root)].relations = @ \o SplitRelations(t, idx[cur].id)]

\* C3: an append that splits and returns changes the store by exactly a new
\* bucket named after the member's instant t, with start t and neither end
\* nor members, the end t of the current bucket, and a >= and a < relation
\* at t pushed onto the root, in this order.
C3_SplitEffect ==
    [][(last'.op = "append" /\ last'.branch = "split" /\ last'.result = "ok")
        => /\ index' = SplitIndex(index, last'.member.quads[1],
                                  FirstMatch(index, last'.cur))
           /\ data' = data]_vars

RecordedIds == UNION {{index[i].members[k] : k \in 1..Len(index[i].members)} : i \in Positions}

StoredIds == {data[k].id : k \in 1..Len(data)}

\* C5: the member whose append split the current bucket is in the members
\* of no bucket and its payload is not in the data collection.
C5_TriggeringMemberDropped ==
    (last.op = "append" /\ last.branch = "split")
        => /\ last.member.id \notin RecordedIds
           /\ last.member.id \notin StoredIds

\* C5 witness: a split returned, after members were stored, and the bucket
\* it opened is empty.
C5_Witness ==
    /\ SplitDone
    /\ RecordedIds # {}
    /\ index[Len(index)].members = << >>
    /\ index[Len(index)].id = ToString(last.member.quads[1]) \o "000"

(***************************************************************************)
(* Bootstrap.                                                              *)
(***************************************************************************)
\* The store is unchanged by a step.
StoreUnchanged == meta' = meta /\ index' = index /\ data' = data

\* C6: instantiate on a store without metadata and without buckets leaves
\* the root bucket "" and one bucket named "1659859701000" (T0 in
\* milliseconds) with start T0 and neither end nor members, and on the root
\* the one relation >= T0 to that bucket.
C6_BootstrapResult ==
    [][(last'.op = "instantiate" /\ last'.result = "ok"
            /\ meta = << >> /\ index = << >>)
        => /\ Len(meta') = 1
           /\ index' =
                <<[id        |-> "",
                   leaf      |-> TRUE,
                   relations |-> <<[type   |-> GreaterThanOrEqualTo,
                                    value  |-> <<2022, 8, 7, 8, 8, 21>>,
                                    path   |-> TimestampPathIRI,
                                    bucket |-> "1659859701000"]>>,
                   count     |-> 0,
                   members   |-> << >>,
                   start     |-> Undefined,
                   end       |-> Undefined],
                  [id        |-> "1659859701000",
                   leaf      |-> TRUE,
                   relations |-> << >>,
                   count     |-> 0,
                   members   |-> << >>,
                   start     |-> <<2022, 8, 7, 8, 8, 21>>,
                   end       |-> Undefined]>>]_vars

\* C6 witness: instantiate returned and the stream holds its two buckets,
\* before any append.
C6_Witness ==
    /\ last.op = "instantiate" /\ last.result = "ok"
    /\ Len(index) = 2
    /\ Len(data) = 0 /\ nAppends = 0

\* C7 as stated: when the metadata of the stream is in the store,
\* instantiate leaves the store as it is.
C7_NoEffectWithMetadata ==
    [][(last'.op = "instantiate" /\ meta # << >>) => StoreUnchanged]_vars

\* C7 as amended: when the metadata of the stream and the root bucket are
\* in the store, instantiate leaves the store as it is; and an instantiate
\* that follows an instantiate that returned leaves the store as it is.
C7_NoEffectWithMetadataAndRoot ==
    [][/\ (/\ last'.op = "instantiate"
           /\ meta # << >>
           /\ \E i \in Positions : index[i].id = "")
            => StoreUnchanged
       /\ (last'.op = "instantiate" /\ last.op = "instantiate" /\ last.result = "ok")
            => StoreUnchanged]_vars

\* C7 witness: instantiate returned on a stream that holds members and
\* more buckets than the bootstrap made.
C7_Witness ==
    /\ last.op = "instantiate" /\ last.result = "ok"
    /\ Len(index) > 2
    /\ Len(data) > 0

(***************************************************************************)
(* The most recent bucket.                                                 *)
(***************************************************************************)
\* The instant of the start of the bucket at a position.
StartOf(idx, i) == NewDate(idx[i].start).time

\* C8: the query for the most recent bucket answers a bucket whose start no
\* start of a bucket exceeds (the root, without start, only when no bucket
\* has one) and answers none exactly when the stream has no bucket, in
\* which case append fails; and after a split at an instant later than the
\* start of every bucket it answers the bucket the split made.
C8_MostRecent ==
    /\ [](/\ (MostRecentPositions(index) = {}) <=> (index = << >>)
          /\ \A i \in MostRecentPositions(index) : \A j \in Positions :
                index[j].start # Undefined
                    => /\ index[i].start # Undefined
                       /\ StartOf(index, i) >= StartOf(index, j))
    /\ [][/\ (last'.op = "append" /\ mongoConnection)
                => ((last'.result = "No buckets present") <=> (index = << >>))
          /\ (/\ last'.op = "append" /\ last'.branch = "split" /\ last'.result = "ok"
              /\ \A j \in Positions :
                    index[j].start # Undefined
                        => StartOf(index, j) < last'.member.quads[1])
                => /\ MostRecentPositions(index') = {Len(index')}
                   /\ index'[Len(index')].id
                        = ToString(last'.member.quads[1]) \o "000"]_vars

\* C8 witness: after a split at an instant later than every start, the
\* most recent bucket is the one the split made, the third of the stream.
C8_Witness ==
    /\ SplitDone
    /\ Len(index) = 3
    /\ MostRecentPositions(index) = {3}
    /\ \A j \in 1..2 : index[j].start # Undefined
            => StartOf(index, j) < last.member.quads[1]

(***************************************************************************)
(* Failures.                                                               *)
(***************************************************************************)
\* C9: an append that finds the current bucket full and fails to get the
\* split instant, the timestamp path being unset or the member having no
\* timestamp, leaves the buckets, the relations and the members as they
\* were.
C9_FailedSplitUnchanged ==
    [][(/\ last'.op = "append" /\ last'.branch = "split"
        /\ last'.result \in {"TimestampPath was not configured",
                             "extractDate failed"})
        => StoreUnchanged]_vars

\* C9 witness: a split failed for want of a timestamp, on a stream that
\* holds members.
C9_Witness ==
    /\ last.op = "append" /\ last.branch = "split"
    /\ last.result = "extractDate failed"
    /\ Len(data) > 0

\* What the appends of members[k], members[k + 1], ... one after the other
\* leave, the first one that throws being the last one made.
RECURSIVE AppendsInOrder(_, _, _, _)
AppendsInOrder(idx, dat, members, k) ==
    IF k > Len(members)
    THEN [index |-> idx, data |-> dat, result |-> "ok", next |-> k]
    ELSE IF appendEarlyError(idx) # "none"
    THEN [index |-> idx, data |-> dat, result |-> appendEarlyError(idx), next |-> k]
    ELSE LET out == append(idx, dat, members[k],
                           CHOOSE cur \in MostRecentPositions(idx) : TRUE)
         IN  IF out.result # "ok"
             THEN [index |-> out.index, data |-> out.data,
                   result |-> out.result, next |-> k]
             ELSE AppendsInOrder(out.index, out.data, members, k + 1)

\* C10: when publish ends, the store is what the appends of its members,
\* one after the other in the order given, leave from the store publish
\* found; publish fails exactly when one of these appends does, with its
\* error, and then no later member is in a bucket or in the data.
C10_PublishInOrder ==
    pub.state \in {"done", "failed"} =>
        LET e == AppendsInOrder(pub.index, pub.data, pub.members, 1)
        IN  /\ index = e.index
            /\ data = e.data
            /\ (pub.state = "done") <=> (e.result = "ok")
            /\ pub.state = "failed" =>
                /\ pub.result = e.result
                /\ pub.next = e.next
                /\ \A j \in (pub.next + 1)..Len(pub.members) :
                      pub.members[j].id \notin (RecordedIds \cup StoredIds)

\* C10 witness: publish of two members failed at the second, and the first
\* is in a bucket.
C10_Witness ==
    /\ pub.state = "failed"
    /\ Len(pub.members) = 2 /\ pub.next = 2
    /\ pub.members[1].id \in RecordedIds
    /\ pub.members[2].id \notin RecordedIds

(***************************************************************************)
(* A producer whose members come in non-decreasing order of timestamp.     *)
(***************************************************************************)
\* The boundary values of the splits, in the order their relations were
\* pushed onto the root: the values of its < relations.
SplitValues ==
    SelectSeq([k \in 1..Len(RootRelations) |->
                   IF RootRelations[k].type = LessThan
                   THEN Some(RootRelations[k].value) ELSE Undefined],
              LAMBDA v : v # Undefined)

\* The member's timestamp is not before that of any member appended so far:
\* each of these was stored in the data collection or gave a split its
\* boundary value.  A member without timestamp has no place in the order.
InOrder(member) ==
    member.quads # Undefined =>
        /\ \A k \in 1..Len(data) :
              data[k].data # Undefined =>
                  ~IsoLess(toISOString(Date(member.quads[1])),
                           toISOString(Date(data[k].data[1])))
        /\ \A k \in 1..Len(SplitValues) :
              ~IsoLess(toISOString(Date(member.quads[1])), SplitValues[k][1])

\* append(member) (lines 269-296) of the next member, in order.
AppendInOrder ==
    /\ Idle
    /\ nAppends < MaxAppends
    /\ \E member \in Members(nAppends + 1) : InOrder(member) /\ AppendTo(member)

OrderedNext ==
    \/ \E config \in Configs : Instantiate(config)
    \/ AppendInOrder

OrderedSpec == Init /\ [][OrderedNext]_vars

\* C12: when the members are appended in non-decreasing order of
\* timestamp, the boundary values of the splits, in the order their
\* relations were pushed onto the root, are non-decreasing.
C12_MonotonicBoundaries ==
    \A j, k \in 1..Len(SplitValues) :
        j < k => ~IsoLess(SplitValues[k][1], SplitValues[j][1])

\* C12 witness: two splits at different instants, members stored between.
C12_Witness ==
    /\ SplitDone
    /\ Len(SplitValues) = 2
    /\ SplitValues[1] # SplitValues[2]
    /\ Len(data) = 2

(***************************************************************************)
(* The calls await by await.  instantiate and append await every store     *)
(* operation: between two of them another caller's operation can take      *)
(* place, and each write can throw, which ends the call with the writes    *)
(* made so far in the store.  A caller's record holds the call's locals.   *)
(***************************************************************************)
\* The caller leaves its call, with "ok" or the error thrown.
Return(p, result) ==
    [calls EXCEPT ![p] = [IdleCall EXCEPT !.result = result,
                                          !.at = IF result = "ok" THEN "none"
                                                 ELSE calls[p].pc,
                                          !.failures = calls[p].failures]]

\* The caller enters a call.
Enter(p, op, pc, member, window, made) ==
    [calls EXCEPT ![p] = [IdleCall EXCEPT !.pc = pc, !.op = op,
                                          !.member = member,
                                          !.window = window,
                                          !.made = made,
                                          !.before = Some(index),
                                          !.failures = calls[p].failures]]

\* instantiate (lines 172-181) up to the answer of bucketExists(root).
BeginInstantiate(p, config) ==
    /\ calls[p].pc = "idle"
    /\ mongoConnection' = TRUE
    /\ meta' = IF streamExists \/ initialiseThrows(config)
               THEN meta ELSE insertMeta(config)
    /\ IF initialiseThrows(config)
       THEN /\ calls' = Return(p, "No way to create SDS metadata")
            /\ UNCHANGED <<_pageSize, _timestampPath>>
       ELSE /\ _pageSize' = Some(PageSize)
            /\ _timestampPath' = Some(TimestampPathIRI)
            /\ calls' = IF bucketExists(index, root)
                        THEN Return(p, "ok")
                        ELSE Enter(p, "instantiate", "createRoot", NoMember,
                                   Undefined, Some(newWindow(Date(DateT0))))
    /\ UNCHANGED <<index, data, nAppends, pub, last>>

\* instantiate: createBucket(root) (line 184).
CreateRoot(p) ==
    /\ calls[p].pc = "createRoot"
    /\ index' = createBucket(index, root)
    /\ calls' = [calls EXCEPT ![p].pc = "createBucket"]
    /\ UNCHANGED <<mongoConnection, _pageSize, _timestampPath, meta, data,
                   nAppends, pub, last>>

\* append (lines 270): getMostRecentWindow.
BeginAppend(p, member) ==
    /\ calls[p].pc = "idle"
    /\ IF appendEarlyError(index) # "none"
       THEN /\ calls' = Return(p, appendEarlyError(index))
            /\ UNCHANGED nAppends
       ELSE \E cur \in MostRecentPositions(index) :
                /\ calls' = Enter(p, "append", "bucketSize", member,
                                  Some(documentToWindow(index[cur])), Undefined)
                /\ nAppends' = nAppends + 1
    /\ UNCHANGED <<mongoConnection, _pageSize, _timestampPath, meta, index,
                   data, pub, last>>

\* append (lines 271-278): bucketSize, the choice of the branch and, in the
\* split branch, the date of the member and the new window.
BucketSize(p) ==
    /\ calls[p].pc = "bucketSize"
    /\ LET size == bucketSize(index, calls[p].window[1])
       IN  calls' =
               IF ~isFull(size)
               THEN [calls EXCEPT ![p].pc = "storeMember", ![p].size = size]
               ELSE IF timestampPathThrows
               THEN Return(p, "TimestampPath was not configured")
               ELSE IF extractDateThrows(calls[p].member)
               THEN Return(p, "extractDate failed")
               ELSE [calls EXCEPT
                        ![p].pc = "createBucket", ![p].size = size,
                        ![p].made = Some(newWindow(extractDate(calls[p].member)))]
    /\ UNCHANGED <<mongoConnection, _pageSize, _timestampPath, meta, index,
                   data, nAppends, pub, last>>

\* createWindow (line 230): createBucket.
CreateBucket(p) ==
    /\ calls[p].pc = "createBucket"
    /\ index' = createBucket(index, calls[p].made[1].identifier)
    /\ calls' = [calls EXCEPT ![p].pc = "setWindowParams"]
    /\ UNCHANGED <<mongoConnection, _pageSize, _timestampPath, meta, data,
                   nAppends, pub, last>>

\* createWindow (lines 232-241): the $set of the start of the new window.
SetWindowParams(p) ==
    /\ calls[p].pc = "setWindowParams"
    /\ index' = setWindowParams(index, calls[p].made[1])
    /\ calls' = [calls EXCEPT ![p].pc = "addWindowToRoot"]
    /\ UNCHANGED <<mongoConnection, _pageSize, _timestampPath, meta, data,
                   nAppends, pub, last>>

\* addWindowToRoot (lines 257-267); the last await of instantiate.
AddWindowToRoot(p) ==
    /\ calls[p].pc = "addWindowToRoot"
    /\ index' = addWindowToRoot(index, calls[p].made[1])
    /\ calls' = IF calls[p].op = "instantiate"
                THEN Return(p, "ok")
                ELSE [calls EXCEPT ![p].pc = "updateWindow"]
    /\ UNCHANGED <<mongoConnection, _pageSize, _timestampPath, meta, data,
                   nAppends, pub, last>>

\* The current window with the end the split gives it (line 283).
Closing(p) ==
    [calls[p].window[1] EXCEPT !.end = Some(calls[p].made[1].start[1])]

\* append (lines 283-284): updateWindow of the current window, which
\* throws before its write when a date of the window is invalid.
UpdateWindow(p) ==
    /\ calls[p].pc = "updateWindow"
    /\ IF windowParamsThrow(Closing(p))
       THEN /\ calls' = Return(p, "RangeError: Invalid time value")
            /\ UNCHANGED index
       ELSE /\ index' = updateWindow(index, Closing(p))
            /\ calls' = [calls EXCEPT ![p].pc = "addRelationsToBucket"]
    /\ UNCHANGED <<mongoConnection, _pageSize, _timestampPath, meta, data,
                   nAppends, pub, last>>

\* append (lines 285-290): the < relation pushed onto the root.
AddRelationsToBucket(p) ==
    /\ calls[p].pc = "addRelationsToBucket"
    /\ index' = addRelationsToBucket(index, root,
                    <<lessThanRelation(calls[p].made[1].start[1],
                                       calls[p].window[1])>>)
    /\ calls' = Return(p, "ok")
    /\ UNCHANGED <<mongoConnection, _pageSize, _timestampPath, meta, data,
                   nAppends, pub, last>>

\* append (line 293): storeMember.
StoreMember(p) ==
    /\ calls[p].pc = "storeMember"
    /\ data' = storeMember(data, calls[p].member)
    /\ calls' = [calls EXCEPT ![p].pc = "addMemberstoBucket"]
    /\ UNCHANGED <<mongoConnection, _pageSize, _timestampPath, meta, index,
                   nAppends, pub, last>>

\* append (line 294): addMemberstoBucket of the current window.
AddMemberstoBucket(p) ==
    /\ calls[p].pc = "addMemberstoBucket"
    /\ index' = addMemberstoBucket(index, calls[p].window[1].identifier,
                                   <<calls[p].member.id>>)
    /\ calls' = Return(p, "ok")
    /\ UNCHANGED <<mongoConnection, _pageSize, _timestampPath, meta, data,
                   nAppends, pub, last>>

\* The awaits that write to the store.
WritePcs ==
    {"createRoot", "createBucket", "setWindowParams", "addWindowToRoot",
     "updateWindow", "addRelationsToBucket", "storeMember",
     "addMemberstoBucket"}

(***************************************************************************)
(* A single caller whose store writes can throw.  The write that throws    *)
(* changes nothing, the call ends there, and the caller goes on with other *)
(* calls: instantiate again, or the append of its next member.             *)
(***************************************************************************)
MaxFailures == 1

Caller == "a"

\* The caller's call ends at a write that throws.
Thrown(p) ==
    [calls EXCEPT ![p].pc = "idle",
                  ![p].result = "store error",
                  ![p].at = calls[p].pc,
                  ![p].failures = @ + 1]

\* A write that throws, were the call to undo the writes it had made.
FailWithRollback(p) ==
    /\ calls[p].pc \in WritePcs
    /\ calls[p].failures < MaxFailures
    /\ calls' = Thrown(p)
    /\ index' = calls[p].before[1]
    /\ UNCHANGED <<mongoConnection, _pageSize, _timestampPath, meta, data,
                   nAppends, pub, last>>

\* A write of the call in progress throws: no statement of instantiate or
\* append catches it, and none undoes a write.
Fail(p) ==
    /\ calls[p].pc \in WritePcs
    /\ calls[p].failures < MaxFailures
    /\ calls' = Thrown(p)
    /\ UNCHANGED <<mongoConnection, _pageSize, _timestampPath, meta, index,
                   data, nAppends, pub, last>>

\* The members of this caller all carry a timestamp, any of the instants.
TimedMembers(n) == {member \in Members(n) : ~extractDateThrows(member)}

FailingAppend(p) ==
    /\ nAppends < MaxAppends
    /\ \E member \in TimedMembers(nAppends + 1) : BeginAppend(p, member)

FailingNext ==
    \/ \E config \in Configs : BeginInstantiate(Caller, config)
    \/ CreateRoot(Caller)
    \/ FailingAppend(Caller)
    \/ BucketSize(Caller)
    \/ CreateBucket(Caller)
    \/ SetWindowParams(Caller)
    \/ AddWindowToRoot(Caller)
    \/ UpdateWindow(Caller)
    \/ AddRelationsToBucket(Caller)
    \/ StoreMember(Caller)
    \/ AddMemberstoBucket(Caller)
    \/ Fail(Caller)

FailingSpec == Init /\ [][FailingNext]_vars

(***************************************************************************)
(* Two producers that append to the same stream at the same time.  The     *)
(* n-th member handed over, by either of them, carries the n-th instant    *)
(* after the first start: in the order the appends begin the timestamps    *)
(* increase, so that a bucket over its capacity or closed twice is the     *)
(* doing of the interleaving and not of the timestamps.                    *)
(***************************************************************************)
StreamMember(n) == [id |-> MemberId(n), quads |-> Some(DateT0 + n)]

ConcurrentAppend(p) ==
    /\ nAppends < MaxAppends
    /\ BeginAppend(p, StreamMember(nAppends + 1))

ConcurrentNext ==
    \/ \E config \in Configs : Instantiate(config)
    \/ \E p \in Producers : ConcurrentAppend(p)
    \/ \E p \in Producers : BucketSize(p)
    \/ \E p \in Producers : CreateBucket(p)
    \/ \E p \in Producers : SetWindowParams(p)
    \/ \E p \in Producers : AddWindowToRoot(p)
    \/ \E p \in Producers : UpdateWindow(p)
    \/ \E p \in Producers : AddRelationsToBucket(p)
    \/ \E p \in Producers : StoreMember(p)
    \/ \E p \in Producers : AddMemberstoBucket(p)

ConcurrentSpec == Init /\ [][ConcurrentNext]_vars

\* C13: two producers that append at the same time can both find the
\* current bucket one short of its capacity and both push: every producer
\* in the store branch found room (occupancy + 1 <= pageSize) when it read
\* the size, and yet a bucket can hold more than pageSize identifiers, by
\* no more than one per other producer.
C13_CapacityRace ==
    _pageSize # Undefined =>
        /\ \A p \in Producers :
              calls[p].pc \in {"storeMember", "addMemberstoBucket"}
                  => calls[p].size + 1 <= _pageSize[1]
        /\ \A i \in Positions :
              Len(index[i].members) <= _pageSize[1] + Cardinality(Producers) - 1

\* C13 witness: both producers returned from append and a bucket holds one
\* identifier more than the page size.
C13_Witness ==
    /\ _pageSize = Some(PageSize)
    /\ \A p \in Producers : calls[p].pc = "idle" /\ calls[p].result = "ok"
    /\ \E i \in Positions : Len(index[i].members) = PageSize + 1

\* The positions, in the relations of the root, of the < relations that
\* lead to the bucket: one per split that closed it.
ClosingsOf(bucketIdentifier) ==
    {k \in 1..Len(RootRelations) :
        /\ RootRelations[k].type = LessThan
        /\ RootRelations[k].bucket = bucketIdentifier}

SplitPcs ==
    {"createBucket", "setWindowParams", "addWindowToRoot", "updateWindow",
     "addRelationsToBucket"}

\* C14: two producers that append at the same time can both find the same
\* current bucket full and both split it: every producer in the split
\* branch read a full bucket (occupancy + 1 > pageSize), each split makes
\* its own new bucket before it pushes its < relation, and a bucket can be
\* closed more than once, by no more than one split per producer.
C14_DoubleSplitRace ==
    _pageSize # Undefined =>
        /\ \A p \in Producers :
              (calls[p].op = "append" /\ calls[p].pc \in SplitPcs)
                  => calls[p].size + 1 > _pageSize[1]
        /\ \A i \in Positions :
              Cardinality(ClosingsOf(index[i].id)) <= Cardinality(Producers)
        /\ Cardinality({k \in 1..Len(RootRelations) :
                            RootRelations[k].type = LessThan}) <= Len(index) - 2

\* C14 witness: both producers returned from append, the root holds two <
\* relations that lead to the first window, at different instants, and a
\* bucket was made at each of the two.
C14_Witness ==
    /\ \A p \in Producers : calls[p].pc = "idle" /\ calls[p].result = "ok"
    /\ \E j, k \in ClosingsOf(valueOfString(Date(DateT0))) :
          /\ j # k
          /\ RootRelations[j].value # RootRelations[k].value
          /\ \A h \in {j, k} : \E i \in Positions :
                index[i].start = RootRelations[h].value

(***************************************************************************)
(* The root.                                                               *)
(***************************************************************************)
\* The relations of every bucket of the index.
AllRelations ==
    UNION {{index[i].relations[k] : k \in 1..Len(index[i].relations)} : i \in Positions}

\* The root is neither opened nor closed, and no relation leads to it.
RootApart ==
    /\ \A i \in Positions :
          index[i].id = root => index[i].start = Undefined /\ index[i].end = Undefined
    /\ \A r \in AllRelations : r.bucket # root

\* C11: the root keeps the identifier "" (no call changes the identifier of
\* a bucket or removes one); no relation, >= or <, leads to the root; and
\* the root is neither opened (no start) nor closed (no end) by a split.
C11_RootStability ==
    /\ [](RootApart)
    /\ [][/\ Len(index') >= Len(index)
          /\ \A i \in Positions : index'[i].id = index[i].id]_vars

\* C11 witness: the root was the current bucket of a split (the bootstrap
\* had stopped after it made the root); the split made and linked its new
\* window and then threw in updateWindow: the root has no end and no <
\* relation leads to it.
C11_Witness ==
    /\ calls[Caller].pc = "idle"
    /\ calls[Caller].result = "RangeError: Invalid time value"
    /\ calls[Caller].at = "updateWindow"
    /\ bucketExists(index, root)
    /\ Len(index[FirstMatch(index, root)].members) = PageSize
    /\ Len(RootRelations) = 1
    /\ RootRelations[1].bucket # root

(***************************************************************************)
(* A split that a throwing write ends.                                     *)
(***************************************************************************)
\* The caller's last call was an append whose split a write ended, after
\* the write that made the new bucket.
SplitThrownAt(p, pcs) ==
    /\ calls[p].pc = "idle"
    /\ calls[p].op = "append"
    /\ calls[p].result = "store error"
    /\ calls[p].at \in pcs

\* What of the old bucket a split is to leave or to set: its end, and its
\* members.
Closure(document) == [end |-> document.end, members |-> document.members]

\* The relations of the root in an index collection.
RelationsOfRoot(idx) ==
    IF bucketExists(idx, root) THEN idx[FirstMatch(idx, root)].relations
    ELSE << >>

\* The split of the caller's last call found the identifier of its new
\* bucket unused and the old bucket open: without end or < relation.
SplitOfOpenBucket(p) ==
    LET before == calls[p].before[1]
        old    == FirstMatch(before, calls[p].window[1].identifier)
    IN  /\ ~bucketExists(before, calls[p].made[1].identifier)
        /\ before[old].end = Undefined
        /\ \A k \in 1..Len(RelationsOfRoot(before)) :
              RelationsOfRoot(before)[k].type = LessThan
                  => RelationsOfRoot(before)[k].bucket # before[old].id

\* C15 as stated: whichever write of a split throws after the new bucket
\* was made (its identifier new, the old bucket open until then), no
\* relation of the root leads to the new bucket, and the old bucket has no
\* end and no < relation.
C15_DanglingAfterAnyFailure ==
    \A p \in Producers :
        (/\ SplitThrownAt(p, SplitPcs \ {"createBucket"})
         /\ SplitOfOpenBucket(p)) =>
            /\ \A k \in 1..Len(RootRelations) :
                  RootRelations[k].bucket # calls[p].made[1].identifier
            /\ index[FirstMatch(index, calls[p].window[1].identifier)].end = Undefined
            /\ ClosingsOf(calls[p].window[1].identifier) = {}

\* C15 as amended: the write that throws changes nothing and no earlier
\* write is undone.  The new bucket stays, the last of the index.  When the
\* write that throws is the set of its start or the push of its >=
\* relation, the root has the relations it had before the call (the new
\* bucket is dangling) and the old bucket has the end and the members it
\* had; when it is the set of the end of the old bucket, the root has the
\* >= relation to the new bucket, and nothing more, and the old bucket is
\* as before; when it is the push of the < relation, the old bucket
\* moreover has its end.
C15_NoRollback ==
    [][\A p \in Producers :
        (/\ calls[p].op = "append"
         /\ calls[p].pc \in SplitPcs \ {"createBucket"}
         /\ calls'[p].result = "store error")
        => LET before == calls[p].before[1]
               made   == calls[p].made[1]
               old    == FirstMatch(before, calls[p].window[1].identifier)
               link   == [type   |-> GreaterThanOrEqualTo,
                          value  |-> toISOString(made.start[1]),
                          path   |-> TimestampPathIRI,
                          bucket |-> made.identifier]
           IN  /\ index' = index
               /\ data' = data
               /\ Len(index') = Len(before) + 1
               /\ index'[Len(index')].id = made.identifier
               /\ RelationsOfRoot(index') =
                      IF calls[p].pc \in {"setWindowParams", "addWindowToRoot"}
                      THEN RelationsOfRoot(before)
                      ELSE Append(RelationsOfRoot(before), link)
               /\ Closure(index'[old]) =
                      IF calls[p].pc = "addRelationsToBucket"
                      THEN [Closure(before[old]) EXCEPT
                               !.end = toISOString(made.start[1])]
                      ELSE Closure(before[old])]_vars

\* C15 witness: the push of the >= relation threw; the new bucket is in the
\* index with its start and no relation leads to it, the old bucket holds
\* its members and has no end.
C15_Witness ==
    /\ SplitThrownAt(Caller, {"addWindowToRoot"})
    /\ index[Len(index)].id = calls[Caller].made[1].identifier
    /\ index[Len(index)].start # Undefined
    /\ \A k \in 1..Len(RootRelations) :
          RootRelations[k].bucket # calls[Caller].made[1].identifier
    /\ \E i \in Positions :
          /\ index[i].id = calls[Caller].window[1].identifier
          /\ Len(index[i].members) = PageSize
          /\ index[i].end = Undefined

(***************************************************************************)
(* The root and the members.                                               *)
(***************************************************************************)
\* C16: in every state, whatever call failed partway before, the root holds
\* no member identifier, and no append has the root as its current bucket.
C16_RootNeverDataBearing ==
    /\ \A i \in Positions : index[i].id = root => index[i].members = << >>
    /\ \A p \in Producers :
          (calls[p].op = "append" /\ calls[p].window # Undefined)
              => calls[p].window[1].identifier # root

(***************************************************************************)
(* The open bucket.                                                        *)
(***************************************************************************)
\* The buckets other than the root that have no end.
OpenPositions == {i \in Positions : index[i].id # root /\ index[i].end = Undefined}

\* Exactly one bucket other than the root has no end, it is the one the
\* query of getMostRecentWindow answers, and the bucket the last append
\* stored its member in, if it did, has no end.
OneOpenBucket ==
    /\ Cardinality(OpenPositions) = 1
    /\ MostRecentPositions(index) = OpenPositions
    /\ StoreDone => index[FirstMatch(index, last.cur)].end = Undefined

\* C17 as stated: after bootstrap, between the appends of a single
\* producer, whatever the timestamps of the members, exactly one bucket
\* other than the root has no end, it is the most recent one, and append
\* stores no member in a bucket that has an end.
C17_OneOpenBucketAnyTimestamps == bucketExists(index, root) => OneOpenBucket

\* C17 as amended: the same, as long as every split was at an instant
\* strictly later than the start of every bucket that existed then.
C17_OneOpenBucketInOrder ==
    (bucketExists(index, root) /\ SplitsInOrder) => OneOpenBucket

\* C17 witness: after a split at a later instant than the first start, a
\* member was stored in the bucket the split opened, the only one without
\* end and the most recent one.
C17_Witness ==
    /\ SplitsInOrder
    /\ StoreDone
    /\ Len(index) = 3
    /\ index[2].end # Undefined
    /\ OpenPositions = {3}
    /\ MostRecentPositions(index) = {3}
    /\ index[3].id = last.cur

(***************************************************************************)
(* The interval of a bucket.                                               *)
(***************************************************************************)
\* The positions, in the relations of the root, of the >= relations that
\* lead to the bucket.
OpeningsOf(bucketIdentifier) ==
    {k \in 1..Len(RootRelations) :
        /\ RootRelations[k].type = GreaterThanOrEqualTo
        /\ RootRelations[k].bucket = bucketIdentifier}

\* Every bucket other than the root has one >= relation, at its start; it
\* has a < relation exactly when it has an end, then one, at its end, and
\* its start is before its end.
OneInterval ==
    \A i \in Positions :
        index[i].id # root =>
            /\ Cardinality(OpeningsOf(index[i].id)) = 1
            /\ \A k \in OpeningsOf(index[i].id) :
                  RootRelations[k].value = index[i].start
            /\ (ClosingsOf(index[i].id) # {}) <=> (index[i].end # Undefined)
            /\ index[i].end # Undefined =>
                  /\ Cardinality(ClosingsOf(index[i].id)) = 1
                  /\ \A k \in ClosingsOf(index[i].id) :
                        RootRelations[k].value = index[i].end
                  /\ IsoLess(index[i].start, index[i].end)

\* C18 as stated: after bootstrap, between the appends of a single
\* producer, whatever the timestamps of the members, every bucket other
\* than the root has exactly one >= relation on the root, at its start, and
\* a < relation exactly when its end is set, then exactly one, at its end,
\* with start < end.
C18_OneIntervalAnyTimestamps == bucketExists(index, root) => OneInterval

\* C18 as amended: the same, as long as every split was at an instant
\* strictly later than the start of every bucket that existed then.
C18_OneIntervalInOrder ==
    (bucketExists(index, root) /\ SplitsInOrder) => OneInterval

\* C18 witness: two splits in order; two buckets have an end and a <
\* relation, the third has neither.
C18_Witness ==
    /\ SplitsInOrder
    /\ Len(index) = 4
    /\ \A i \in {2, 3} : index[i].end # Undefined /\ ClosingsOf(index[i].id) # {}
    /\ index[4].end = Undefined /\ ClosingsOf(index[4].id) = {}
    /\ OpeningsOf(index[4].id) # {}

(***************************************************************************)
(* The identifiers of the buckets.                                         *)
(***************************************************************************)
\* C19: in every state of a run of a single producer, whatever the
\* timestamps of its members, no two buckets have the same identifier.
C19_IdentifiersUnique ==
    \A i, j \in Positions : i # j => index[i].id # index[j].id

(***************************************************************************)
(* The append that follows a split.                                        *)
(***************************************************************************)
\* The append made in this step took the other branch and stored its
\* member in the bucket that the split before it had made.
StoredInSplitBucket ==
    /\ last'.branch = "store"
    /\ last'.result = "ok"
    /\ last'.cur = valueOfString(Date(last.member.quads[1]))
    /\ \E i \in 1..Len(index') :
          /\ index'[i].id = last'.cur
          /\ index'[i].start = toISOString(Date(last.member.quads[1]))
          /\ index'[i].members = <<last'.member.id>>

\* C20 as stated: whatever the timestamps, the append (of a member that
\* has a timestamp) that follows an append that split stores its member in
\* the bucket the split made: no two appends in a row split.
C20_StoreAfterSplitAnyTimestamps ==
    [][(SplitDone /\ last'.op = "append" /\ last'.member.quads # Undefined)
        => StoredInSplitBucket]_vars

\* C20 as amended: as long as every split was at an instant strictly
\* later than the start of every bucket that existed then, the append that
\* follows an append that split stores its member in the bucket the split
\* made, and every closed bucket holds pageSize members: one member in
\* pageSize + 1 goes unrecorded.
C20_StoreAfterSplitInOrder ==
    /\ [][(/\ SplitDone /\ SplitsInOrder
            /\ last'.op = "append" /\ last'.member.quads # Undefined)
            => StoredInSplitBucket]_vars
    /\ []((bucketExists(index, root) /\ SplitsInOrder /\ _pageSize # Undefined) =>
            \A i \in Positions :
                index[i].end # Undefined => Len(index[i].members) = _pageSize[1])

\* C20 witness: a member was stored, right after a split in order, in the
\* bucket that split had made, which the >= relation it pushed leads to.
C20_Witness ==
    /\ StoreDone
    /\ SplitsInOrder
    /\ Len(RootRelations) = 3
    /\ last.cur = RootRelations[2].bucket
    /\ index[FirstMatch(index, last.cur)].members = <<last.member.id>>
    /\ Len(data) = PageSize + 1

====
